---- MODULE Spec2Model ----
(***************************************************************************)
(* Model of the Oumarbackend HTTP API: the contact router                  *)
(* (Projet/contact/contact.js, kept as src/unnamed/part_000) and the       *)
(* project router (src/Projet/projet.js), both over a PostgreSQL pool.     *)
(*                                                                         *)
(* A JavaScript string is a sequence of one-character strings; a JSON      *)
(* value is a record [t, s, n]: its type tag, its characters when it is a  *)
(* string and its number / truth value / identity otherwise.               *)
(***************************************************************************)
EXTENDS Integers, Sequences, FiniteSets, Bags, TLC

(***************************************************************************)
(* Bounds of the model.                                                    *)
(***************************************************************************)
MaxContacts == 2    \* contact rows ever inserted
MaxProjects == 2    \* project rows ever inserted
MaxPending  == 2    \* project requests suspended between their two statements
MaxClock    == 3    \* statements that read the database clock
MaxPage     == 2    \* largest page a list request asks for
MaxLimit    == 2    \* largest limit a list request asks for

(***************************************************************************)
(* JSON values as the handlers see them in req.body.                       *)
(***************************************************************************)
JUndef   == [t |-> "undefined", s |-> <<>>, n |-> 0]
JNull    == [t |-> "null",      s |-> <<>>, n |-> 0]
JStr(s)  == [t |-> "string",    s |-> s,    n |-> 0]
JNum(n)  == [t |-> "number",    s |-> <<>>, n |-> n]
JBool(b) == [t |-> "boolean",   s |-> <<>>, n |-> IF b THEN 1 ELSE 0]
JObj(k)  == [t |-> "object",    s |-> <<>>, n |-> k]
JArr(k)  == [t |-> "array",     s |-> <<>>, n |-> k]

\* JavaScript truthiness: what `!v`, `v || null` and `v ? a : b` test.
Truthy(v) ==
  CASE v.t = "undefined" -> FALSE
    [] v.t = "null"      -> FALSE
    [] v.t = "string"    -> v.s # <<>>
    [] v.t = "number"    -> v.n # 0
    [] v.t = "boolean"   -> v.n = 1
    [] OTHER             -> TRUE

\* typeof v
TypeOf(v) ==
  CASE v.t = "null"  -> "object"
    [] v.t = "array" -> "object"
    [] OTHER         -> v.t

\* Array.isArray(v)
IsArray(v) == v.t = "array"

\* v == null, the test optional chaining (?.) makes
IsNullish(v) == v.t \in {"undefined", "null"}

(***************************************************************************)
(* Strings.                                                                *)
(***************************************************************************)
IsSpace(c) == c = " "

RECURSIVE TrimLeft(_)
TrimLeft(s) == IF s # <<>> /\ IsSpace(Head(s)) THEN TrimLeft(Tail(s)) ELSE s

RECURSIVE TrimRight(_)
TrimRight(s) ==
  IF s # <<>> /\ IsSpace(s[Len(s)]) THEN TrimRight(SubSeq(s, 1, Len(s) - 1)) ELSE s

\* String.prototype.trim
trim(s) == TrimRight(TrimLeft(s))

SlugChars == {"a", "b", "1", "-"}

\* /^[a-z0-9-]+$/.test(s)
SlugPattern(s) == s # <<>> /\ \A i \in 1..Len(s) : s[i] \in SlugChars

\* [^\s@]+ over s[lo..hi]
NoSpaceNoAt(s, lo, hi) ==
  lo <= hi /\ \A i \in lo..hi : ~IsSpace(s[i]) /\ s[i] # "@"

\* /^[^\s@]+@[^\s@]+\.[^\s@]+$/.test(s)
EmailPattern(s) ==
  \E i \in 1..Len(s) : \E j \in 1..Len(s) :
    /\ s[i] = "@"
    /\ s[j] = "."
    /\ i < j
    /\ NoSpaceNoAt(s, 1, i - 1)
    /\ NoSpaceNoAt(s, i + 1, j - 1)
    /\ NoSpaceNoAt(s, j + 1, Len(s))

(***************************************************************************)
(* validateContactData (contact.js).  `!data.f?.trim()` is true for an     *)
(* absent or null field and for a blank string; for any other non-string   *)
(* the call of the missing method trim throws a TypeError, which leaves    *)
(* the function at once.                                                   *)
(***************************************************************************)
TrimThrows(v) == ~IsNullish(v) /\ v.t # "string"

NotTrimmed(v) == IsNullish(v) \/ trim(v.s) = <<>>

NameErrors(data) ==
  IF NotTrimmed(data.name) THEN <<"Le nom est requis">> ELSE <<>>

EmailErrors(data) ==
  IF NotTrimmed(data.email) THEN <<"Email est requis">>
  ELSE IF ~EmailPattern(data.email.s) THEN <<"Email invalide">>
  ELSE <<>>

MessageErrors(data) ==
  IF NotTrimmed(data.message) THEN <<"Le message est requis">> ELSE <<>>

\* [threw, errors]: threw when evaluation ended in the TypeError.
validateContactData(data) ==
  IF TrimThrows(data.name) \/ TrimThrows(data.email) \/ TrimThrows(data.message)
  THEN [threw |-> TRUE, errors |-> <<>>]
  ELSE [threw |-> FALSE,
        errors |-> NameErrors(data) \o EmailErrors(data) \o MessageErrors(data)]

(***************************************************************************)
(* Project validation and the parameter lists of INSERT and UPDATE         *)
(* (projet.js).  The messages are the source's, without their accents.     *)
(***************************************************************************)
\* title and description on POST: lines 40-46
RequiredStringErrors(v, missing, notString, empty) ==
  IF ~Truthy(v) THEN <<missing>>
  ELSE IF TypeOf(v) # "string" THEN <<notString>>
  ELSE IF trim(v.s) = <<>> THEN <<empty>>
  ELSE <<>>

\* slug on POST: lines 48-51
RequiredSlugErrors(v) ==
  IF ~Truthy(v) THEN <<"Le slug est obligatoire">>
  ELSE IF TypeOf(v) # "string" THEN <<"Le slug doit etre une chaine de caracteres">>
  ELSE IF trim(v.s) = <<>> THEN <<"Le slug ne peut pas etre vide">>
  ELSE IF ~SlugPattern(v.s)
    THEN <<"Le slug ne peut contenir que des lettres minuscules, chiffres et tirets">>
  ELSE <<>>

PostErrors(body) ==
  RequiredStringErrors(body.title, "Le titre est obligatoire",
      "Le titre doit etre une chaine de caracteres", "Le titre ne peut pas etre vide")
  \o RequiredStringErrors(body.description, "La description est obligatoire",
      "La description doit etre une chaine de caracteres",
      "La description ne peut pas etre vide")
  \o RequiredSlugErrors(body.slug)

\* title and description on PUT: lines 181-189
OptionalStringErrors(v, notString, empty) ==
  IF v.t = "undefined" THEN <<>>
  ELSE IF TypeOf(v) # "string" THEN <<notString>>
  ELSE IF trim(v.s) = <<>> THEN <<empty>>
  ELSE <<>>

\* slug on PUT: lines 191-195
OptionalSlugErrors(v) ==
  IF v.t = "undefined" THEN <<>>
  ELSE IF TypeOf(v) # "string" THEN <<"Le slug doit etre une chaine de caracteres">>
  ELSE IF trim(v.s) = <<>> THEN <<"Le slug ne peut pas etre vide">>
  ELSE IF ~SlugPattern(v.s)
    THEN <<"Le slug ne peut contenir que des lettres minuscules, chiffres et tirets">>
  ELSE <<>>

PutErrors(body) ==
  OptionalStringErrors(body.title, "Le titre doit etre une chaine de caracteres",
      "Le titre ne peut pas etre vide")
  \o OptionalStringErrors(body.description,
      "La description doit etre une chaine de caracteres",
      "La description ne peut pas etre vide")
  \o OptionalSlugErrors(body.slug)

\* v || null
OrNull(v) == IF Truthy(v) THEN v ELSE JNull

\* v ? v.trim() : null
TrimOrNull(v) == IF Truthy(v) THEN JStr(trim(v.s)) ELSE JNull

\* const values = [...] of POST: lines 68-76
PostValues(body) ==
  [title        |-> JStr(trim(body.title.s)),
   description  |-> JStr(trim(body.description.s)),
   image        |-> OrNull(body.image),
   technologies |-> IF IsArray(body.technologies) THEN body.technologies ELSE JNull,
   featured     |-> IF TypeOf(body.featured) = "boolean" THEN body.featured
                    ELSE JBool(FALSE),
   stats        |-> OrNull(body.stats),
   slug         |-> JStr(trim(body.slug.s))]

\* const values = [...] of PUT: lines 233-242
PutValues(body) ==
  [title        |-> TrimOrNull(body.title),
   description  |-> TrimOrNull(body.description),
   image        |-> OrNull(body.image),
   technologies |-> IF IsArray(body.technologies) THEN body.technologies ELSE JNull,
   featured     |-> IF TypeOf(body.featured) = "boolean" THEN body.featured ELSE JNull,
   stats        |-> OrNull(body.stats),
   slug         |-> TrimOrNull(body.slug)]

(***************************************************************************)
(* Identifiers.  parseInt reads the longest numeric prefix, PostgreSQL's   *)
(* integer input reads the whole text.                                     *)
(***************************************************************************)
Digits == {"0", "1", "2", "3", "4", "5", "6", "7", "8", "9"}

DigitVal(c) ==
  CASE c = "0" -> 0 [] c = "1" -> 1 [] c = "2" -> 2 [] c = "3" -> 3 [] c = "4" -> 4
    [] c = "5" -> 5 [] c = "6" -> 6 [] c = "7" -> 7 [] c = "8" -> 8 [] c = "9" -> 9

DigitChar(n) == CHOOSE c \in Digits : DigitVal(c) = n

RECURSIVE DecimalVal(_)
DecimalVal(s) ==
  IF s = <<>> THEN 0 ELSE 10 * DecimalVal(SubSeq(s, 1, Len(s) - 1)) + DigitVal(s[Len(s)])

AllDigits(s) == s # <<>> /\ \A i \in 1..Len(s) : s[i] \in Digits

Unsigned(s) == IF s # <<>> /\ Head(s) \in {"+", "-"} THEN Tail(s) ELSE s

\* isNaN(parseInt(s))
ParseIntIsNaN(s) ==
  LET t == Unsigned(TrimLeft(s)) IN t = <<>> \/ Head(t) \notin Digits

\* !id || isNaN(parseInt(id)): projet.js lines 119, 162, 267
BadId(id) == id = <<>> \/ ParseIntIsNaN(id)

\* The integer a text parameter denotes for `id = $1`; ok is FALSE when the
\* server rejects it (SQLSTATE 22P02).
PgInt(s) ==
  LET t == trim(s)
      u == Unsigned(t)
  IN  IF AllDigits(u)
      THEN [ok |-> TRUE,
            val |-> IF Head(t) = "-" THEN 0 - DecimalVal(u) ELSE DecimalVal(u)]
      ELSE [ok |-> FALSE, val |-> 0]

(***************************************************************************)
(* State.                                                                  *)
(***************************************************************************)
VARIABLES
  contact,      \* table contact: a set of rows
  contactSeq,   \* next value of contact's id sequence
  projects,     \* table projects: a set of rows
  projectsSeq,  \* next value of projects' id sequence
  now,          \* the database clock
  pending,      \* bag of project PUT / DELETE handlers suspended after their SELECT
  listing,      \* the contact list handler suspended in Promise.all
  res,          \* the response being sent (op "none": none)
  delContact,   \* history: per contact id, the DELETEs answered 200
  delProject,   \* history: per project id, the DELETEs answered 200
  arg,          \* argument of the pure function under check
  ret           \* its result

tables == <<contact, contactSeq, projects, projectsSeq, now>>
contactTables == <<contact, contactSeq>>
projectTables == <<projects, projectsSeq>>
history == <<delContact, delProject>>
pure == <<arg, ret>>
vars == <<contact, contactSeq, projects, projectsSeq, now, pending, listing, res,
          delContact, delProject, arg, ret>>

NoData  == [id |-> 0]
NoBody  == [json |-> "none"]
NoQuery == [search |-> JUndef, page |-> JUndef, limit |-> JUndef, sort |-> <<>>]
NoPagination == [total |-> 0, totalPages |-> 0, currentPage |-> 0, itemsPerPage |-> 0]

\* A response: the request it answers (op, id, body, query), the status and
\* the envelope (data, rows, pagination, errors, deletedId), and two facts
\* about the request: stmts, the statements it sent to the pool, and late,
\* whether it arrived after a DELETE of its id had been answered 200.
NoRes ==
  [op |-> "none", id |-> <<>>, body |-> NoBody, query |-> NoQuery, status |-> 0,
   success |-> FALSE, data |-> NoData, rows |-> <<>>, pagination |-> NoPagination,
   errors |-> <<>>, message |-> "", deletedId |-> <<>>, stmts |-> 0, late |-> FALSE]

Failure(op, id, body, status, message, stmts, late) ==
  [NoRes EXCEPT !.op = op, !.id = id, !.body = body, !.status = status,
                !.message = message, !.stmts = stmts, !.late = late]

Invalid(op, id, body, errors, message, late) ==
  [NoRes EXCEPT !.op = op, !.id = id, !.body = body, !.status = 400,
                !.errors = errors, !.message = message, !.late = late]

Success(op, id, body, status, data, message, stmts, late) ==
  [NoRes EXCEPT !.op = op, !.id = id, !.body = body, !.status = status,
                !.success = TRUE, !.data = data, !.message = message,
                !.stmts = stmts, !.late = late]

\* `WHERE id = $1`
SelectById(table, n) == {r \in table : r.id = n}

\* A DELETE of the id this text denotes has been answered 200.
Deleted(del, id) ==
  PgInt(id).ok /\ PgInt(id).val \in DOMAIN del /\ del[PgInt(id).val] > 0

Answered200(del, n) == IF n \in DOMAIN del THEN [del EXCEPT ![n] = @ + 1] ELSE del

(***************************************************************************)
(* Contact router (contact.js).  Its handlers are async functions without  *)
(* a next argument: what is thrown inside try is answered 500, and the     *)
(* TypeError of validateContactData, thrown before try, rejects the        *)
(* handler's promise, which Express 4 leaves unanswered (status 0) and     *)
(* Express 5 hands to the error handler (500).                             *)
(***************************************************************************)
RejectedStatuses == {0, 500}

ServerError(op, id, body, stmts, late) ==
  Failure(op, id, body, 500, "Erreur serveur", stmts, late)

ContactNotFound(op, id, body, late) ==
  Failure(op, id, body, 404, "Contact non trouve", 1, late)

\* router.post('/'): lines 27-50
ContactPost(body) ==
  LET v == validateContactData(body) IN
  /\ UNCHANGED <<projectTables, pending, listing, history, pure>>
  /\ IF v.threw
     THEN /\ \E st \in RejectedStatuses :
               res' = Failure("contact.post", <<>>, body, st, "", 0, FALSE)
          /\ UNCHANGED <<contactTables, now>>
     ELSE IF v.errors # <<>>
     THEN /\ res' = Invalid("contact.post", <<>>, body, v.errors, "", FALSE)
          /\ UNCHANGED <<contactTables, now>>
     ELSE LET row == [id |-> contactSeq, name |-> body.name, email |-> body.email,
                      message |-> body.message, created_at |-> now + 1]
          IN  /\ contactSeq <= MaxContacts
              /\ now < MaxClock
              /\ contact' = contact \cup {row}
              /\ contactSeq' = contactSeq + 1
              /\ now' = now + 1
              /\ res' = Success("contact.post", <<>>, body, 201, row, "", 1, FALSE)

\* router.get('/:id'): lines 110-129
ContactGet(id) ==
  LET late == Deleted(delContact, id)
      rows == SelectById(contact, PgInt(id).val)
  IN
  /\ UNCHANGED <<tables, pending, listing, history, pure>>
  /\ res' = IF ~PgInt(id).ok THEN ServerError("contact.get", id, NoBody, 1, late)
            ELSE IF rows = {} THEN ContactNotFound("contact.get", id, NoBody, late)
            ELSE Success("contact.get", id, NoBody, 200, CHOOSE r \in rows : TRUE,
                         "", 1, late)

\* UPDATE contact SET name = $1, email = $2, message = $3 WHERE id = $4
ContactUpdate(table, n, body) ==
  {IF r.id = n
     THEN [r EXCEPT !.name = body.name, !.email = body.email, !.message = body.message]
     ELSE r : r \in table}

\* router.put('/:id'): lines 134-160
ContactPut(id, body) ==
  LET v == validateContactData(body)
      late == Deleted(delContact, id)
      updated == ContactUpdate(contact, PgInt(id).val, body)
      rows == SelectById(updated, PgInt(id).val)
  IN
  /\ UNCHANGED <<contactSeq, projectTables, now, pending, listing, history, pure>>
  /\ IF v.threw
     THEN /\ \E st \in RejectedStatuses :
               res' = Failure("contact.put", id, body, st, "", 0, late)
          /\ UNCHANGED contact
     ELSE IF v.errors # <<>>
     THEN /\ res' = Invalid("contact.put", id, body, v.errors, "", late)
          /\ UNCHANGED contact
     ELSE IF ~PgInt(id).ok
     THEN /\ res' = ServerError("contact.put", id, body, 1, late)
          /\ UNCHANGED contact
     ELSE IF rows = {}
     THEN /\ res' = ContactNotFound("contact.put", id, body, late)
          /\ UNCHANGED contact
     ELSE /\ contact' = updated
          /\ res' = Success("contact.put", id, body, 200, CHOOSE r \in rows : TRUE,
                            "", 1, late)

\* The DELETE without its WHERE clause.
ContactDeleteAll(table, n) == {}

\* DELETE FROM contact WHERE id = $1
ContactDeleteFrom(table, n) == {r \in table : r.id # n}

\* router.delete('/:id'): lines 165-184
ContactDelete(id) ==
  LET late == Deleted(delContact, id)
      n == PgInt(id).val
      kept == ContactDeleteFrom(contact, n)
      rows == contact \ kept        \* RETURNING id, name
  IN
  /\ UNCHANGED <<contactSeq, projectTables, now, pending, listing, delProject, pure>>
  /\ IF ~PgInt(id).ok
     THEN /\ res' = ServerError("contact.delete", id, NoBody, 1, late)
          /\ UNCHANGED <<contact, delContact>>
     ELSE IF rows = {}
     THEN /\ res' = ContactNotFound("contact.delete", id, NoBody, late)
          /\ contact' = kept
          /\ UNCHANGED delContact
     ELSE /\ contact' = kept
          /\ delContact' = Answered200(delContact, n)
          /\ res' = LET r == CHOOSE r \in rows : TRUE
                    IN  Success("contact.delete", id, NoBody, 200,
                                [id |-> r.id, name |-> r.name], "", 1, late)

(***************************************************************************)
(* The contact list: router.get('/'), lines 55-105.  A sort parameter is   *)
(* kept as the segments sort.split('-') yields (<<>>: no parameter).       *)
(***************************************************************************)
DefaultPage  == 1
DefaultLimit == 10
DefaultSort  == <<"created_at", "desc">>

\* A query-string number as arithmetic and parseInt read it.
NumberOf(v) == IF v.t = "number" THEN v.n ELSE DecimalVal(v.s)

page(q)  == IF q.page.t = "undefined" THEN JNum(DefaultPage) ELSE q.page
limit(q) == IF q.limit.t = "undefined" THEN JNum(DefaultLimit) ELSE q.limit
sort(q)  == IF q.sort = <<>> THEN DefaultSort ELSE q.sort

\* The offset counted from page 0.
offsetFromPage(q) == NumberOf(page(q)) * NumberOf(limit(q))

\* const offset = (page - 1) * limit
offset(q) == (NumberOf(page(q)) - 1) * NumberOf(limit(q))

Lower(c) == CASE c = "A" -> "a" [] c = "B" -> "b" [] OTHER -> c

LowerStr(s) == [i \in 1..Len(s) |-> Lower(s[i])]

Contains(text, part) ==
  \E i \in 0..(Len(text) - Len(part)) : SubSeq(text, i + 1, i + Len(part)) = part

\* column ILIKE '%' || search || '%'
ILike(column, search) == Contains(LowerStr(column.s), LowerStr(search.s))

\* baseQuery: FROM contact [WHERE name ILIKE $1 OR email ILIKE $1 OR message ILIKE $1]
baseQuery(table, q) ==
  IF Truthy(q.search)
  THEN {r \in table : \/ ILike(r.name, q.search)
                      \/ ILike(r.email, q.search)
                      \/ ILike(r.message, q.search)}
  ELSE table

Column(r, field) == IF field = "id" THEN r.id ELSE r.created_at

RECURSIVE Ascending(_, _)
Ascending(rows, field) ==
  IF rows = {} THEN <<>>
  ELSE LET first == CHOOSE r \in rows :
                      \A o \in rows : Column(r, field) <= Column(o, field)
       IN  <<first>> \o Ascending(rows \ {first}, field)

Reverse(s) == [i \in 1..Len(s) |-> s[Len(s) + 1 - i]]

\* ORDER BY ${sortField} ${sortOrder.toUpperCase()}
orderClause(rows, q) ==
  IF sort(q)[2] \in {"desc", "DESC"}
  THEN Reverse(Ascending(rows, sort(q)[1]))
  ELSE Ascending(rows, sort(q)[1])

Min(a, b) == IF a < b THEN a ELSE b

\* LIMIT $n OFFSET $m over an ordered result
LimitOffset(s, lim, off) == SubSeq(s, off + 1, Min(off + lim, Len(s)))

\* dataQuery; ok is FALSE when the server rejects a negative OFFSET.
dataQuery(table, q) ==
  IF offset(q) < 0 THEN [ok |-> FALSE, rows |-> <<>>]
  ELSE [ok |-> TRUE,
        rows |-> LimitOffset(orderClause(baseQuery(table, q), q),
                             NumberOf(limit(q)), offset(q))]

\* countQuery
countQuery(table, q) == Cardinality(baseQuery(table, q))

\* Math.ceil(count / limit); -1 stands for the null that JSON makes of
\* Infinity and NaN.
totalPages(count, lim) == IF lim = 0 THEN -1 ELSE (count + lim - 1) \div lim

\* pagination: lines 94-99
pagination(count, q) ==
  [total        |-> count,
   totalPages   |-> totalPages(count, NumberOf(limit(q))),
   currentPage  |-> NumberOf(page(q)),
   itemsPerPage |-> NumberOf(limit(q))]

ListFailure(q, stmts) ==
  [NoRes EXCEPT !.op = "contact.list", !.query = q, !.status = 500,
                !.message = "Erreur serveur", !.stmts = stmts]

NoListing ==
  [active |-> FALSE, query |-> NoQuery, first |-> "", rows |-> <<>>, count |-> 0]

\* The request arrives and the first of the two statements of Promise.all
\* runs.
ContactListStart(q, first) ==
  /\ ~listing.active
  /\ UNCHANGED <<tables, pending, history, pure>>
  /\ IF Len(sort(q)) < 2
     THEN /\ res' = ListFailure(q, 0)        \* sortOrder.toUpperCase() throws
          /\ UNCHANGED listing
     ELSE IF first = "data" /\ ~dataQuery(contact, q).ok
     THEN /\ res' = ListFailure(q, 2)
          /\ UNCHANGED listing
     ELSE /\ res' = NoRes
          /\ listing' = [active |-> TRUE, query |-> q, first |-> first,
                         rows |-> IF first = "data" THEN dataQuery(contact, q).rows
                                  ELSE <<>>,
                         count |-> IF first = "count" THEN countQuery(contact, q)
                                   ELSE 0]

\* The second statement runs and the response is composed.
ContactListFinish ==
  LET q == listing.query
      data == IF listing.first = "data" THEN [ok |-> TRUE, rows |-> listing.rows]
              ELSE dataQuery(contact, q)
      count == IF listing.first = "count" THEN listing.count
               ELSE countQuery(contact, q)
  IN
  /\ listing.active
  /\ listing' = NoListing
  /\ UNCHANGED <<tables, pending, history, pure>>
  /\ res' = IF ~data.ok THEN ListFailure(q, 2)
            ELSE [NoRes EXCEPT !.op = "contact.list", !.query = q, !.status = 200,
                               !.success = TRUE, !.rows = data.rows,
                               !.pagination = pagination(count, q), !.stmts = 2]

(***************************************************************************)
(* Table projects.  slug carries a unique constraint: the handlers map     *)
(* its violation, SQLSTATE 23505, to 409.                                  *)
(***************************************************************************)
UniqueViolation == "23505"
InvalidText     == "22P02"

\* The row INSERT ... RETURNING * yields; created_at and updated_at take
\* the clock's value.
InsertedRow(values, n, t) ==
  [id |-> n, title |-> values.title, description |-> values.description,
   image |-> values.image, technologies |-> values.technologies,
   featured |-> values.featured, stats |-> values.stats, slug |-> values.slug,
   created_at |-> t, updated_at |-> t]

\* COALESCE($k, column)
Coalesce(param, column) == IF param.t = "null" THEN column ELSE param

\* SET ... of the UPDATE: lines 220-229
UpdatedRow(r, values, t) ==
  [r EXCEPT !.title        = Coalesce(values.title, @),
            !.description  = Coalesce(values.description, @),
            !.image        = Coalesce(values.image, @),
            !.technologies = Coalesce(values.technologies, @),
            !.featured     = Coalesce(values.featured, @),
            !.stats        = Coalesce(values.stats, @),
            !.slug         = Coalesce(values.slug, @),
            !.updated_at   = t]

\* Another row of the table holds the slug of row r.
SlugTaken(table, r) == \E o \in table : o.id # r.id /\ o.slug = r.slug

\* INSERT INTO projects ... RETURNING *: lines 62-66
ProjectInsert(table, values, n, t) ==
  LET row == InsertedRow(values, n, t) IN
  IF SlugTaken(table, row)
  THEN [code |-> UniqueViolation, table |-> table, rows |-> {}]
  ELSE [code |-> "", table |-> table \cup {row}, rows |-> {row}]

\* UPDATE projects SET ... WHERE id = $8 RETURNING *: lines 219-231
ProjectUpdate(table, n, values, t) ==
  LET old == SelectById(table, n)
      new == {UpdatedRow(r, values, t) : r \in old}
      others == table \ old
  IN  IF \E r \in new : SlugTaken(others, r)
      THEN [code |-> UniqueViolation, table |-> table, rows |-> {}]
      ELSE [code |-> "", table |-> others \cup new, rows |-> new]

\* The DELETE matching no row.
ProjectDeleteNone(table, n) == table

\* DELETE FROM projects WHERE id = $1: line 288
ProjectDeleteFrom(table, n) == {r \in table : r.id # n}

(***************************************************************************)
(* Project router (projet.js).  What a handler catches and does not map    *)
(* goes to next(error), which server.js answers err.status || 500.         *)
(***************************************************************************)
\* The catch without its branch for 23505.
CatchUnmapped(code) == 500

\* catch (error): lines 80-89 and 246-255
CatchStatus(code) == IF code = UniqueViolation THEN 409 ELSE 500

CatchMessage(code) ==
  IF code = UniqueViolation THEN "Un projet avec ce slug existe deja" ELSE "error.message"

\* !req.body || typeof req.body !== 'object'
NotJsonObject(body) == body.json # "object"

BadIdResponse(op, id, body, late) ==
  Invalid(op, id, body, <<>>, "ID doit etre un nombre valide", late)

NotObjectResponse(op, id, body, late) ==
  Invalid(op, id, body, <<>>, "Le corps de la requete doit etre un objet JSON", late)

ValidationResponse(op, id, body, errors, late) ==
  Invalid(op, id, body, errors, "Erreurs de validation", late)

ProjectNotFound(op, id, body, late) ==
  Failure(op, id, body, 404, "Projet non trouve", 1, late)

FirstRow(rows) == IF rows = {} THEN NoData ELSE CHOOSE r \in rows : TRUE

\* router.post('/'): lines 27-90
ProjectPost(body) ==
  /\ UNCHANGED <<contactTables, pending, listing, history, pure>>
  /\ IF NotJsonObject(body)
     THEN /\ res' = NotObjectResponse("project.post", <<>>, body, FALSE)
          /\ UNCHANGED <<projectTables, now>>
     ELSE IF PostErrors(body) # <<>>
     THEN /\ res' = ValidationResponse("project.post", <<>>, body, PostErrors(body),
                                       FALSE)
          /\ UNCHANGED <<projectTables, now>>
     ELSE LET done == ProjectInsert(projects, PostValues(body), projectsSeq, now + 1)
          IN  IF done.code # ""
              THEN /\ res' = Failure("project.post", <<>>, body, CatchStatus(done.code),
                                     CatchMessage(done.code), 1, FALSE)
                   /\ UNCHANGED <<projectTables, now>>
              ELSE /\ projectsSeq <= MaxProjects
                   /\ now < MaxClock
                   /\ projects' = done.table
                   /\ projectsSeq' = projectsSeq + 1
                   /\ now' = now + 1
                   /\ res' = Success("project.post", <<>>, body, 201,
                                     FirstRow(done.rows), "", 1, FALSE)

\* router.get('/:id'): lines 116-144
ProjectGet(id) ==
  LET late == Deleted(delProject, id)
      rows == SelectById(projects, PgInt(id).val)
  IN
  /\ UNCHANGED <<tables, pending, listing, history, pure>>
  /\ res' = IF BadId(id) THEN BadIdResponse("project.get", id, NoBody, late)
            ELSE IF ~PgInt(id).ok
            THEN Failure("project.get", id, NoBody, CatchStatus(InvalidText),
                         CatchMessage(InvalidText), 1, late)
            ELSE IF rows = {} THEN ProjectNotFound("project.get", id, NoBody, late)
            ELSE Success("project.get", id, NoBody, 200, FirstRow(rows), "", 1, late)

\* The handler suspends after its SELECT found the row.
Suspend(op, id, body, late) ==
  /\ BagCardinality(pending) < MaxPending
  /\ pending' = pending (+) SetToBag({[op |-> op, id |-> id, body |-> body,
                                       late |-> late]})
  /\ res' = NoRes

\* router.put('/:id') up to the existence check: lines 159-217
ProjectPutCheck(id, body) ==
  LET late == Deleted(delProject, id)
      rows == SelectById(projects, PgInt(id).val)
  IN
  /\ UNCHANGED <<tables, listing, history, pure>>
  /\ IF BadId(id)
     THEN res' = BadIdResponse("project.put", id, body, late) /\ UNCHANGED pending
     ELSE IF NotJsonObject(body)
     THEN res' = NotObjectResponse("project.put", id, body, late) /\ UNCHANGED pending
     ELSE IF PutErrors(body) # <<>>
     THEN /\ res' = ValidationResponse("project.put", id, body, PutErrors(body), late)
          /\ UNCHANGED pending
     ELSE IF ~PgInt(id).ok
     THEN /\ res' = Failure("project.put", id, body, CatchStatus(InvalidText),
                            CatchMessage(InvalidText), 1, late)
          /\ UNCHANGED pending
     ELSE IF rows = {}
     THEN res' = ProjectNotFound("project.put", id, body, late) /\ UNCHANGED pending
     ELSE Suspend("project.put", id, body, late)

\* router.put('/:id') from the UPDATE on: lines 219-256
ProjectPutUpdate(p) ==
  LET done == ProjectUpdate(projects, PgInt(p.id).val, PutValues(p.body), now + 1)
  IN
  /\ p.op = "project.put"
  /\ pending' = pending (-) SetToBag({p})
  /\ UNCHANGED <<contactTables, projectsSeq, listing, history, pure>>
  /\ IF done.code # ""
     THEN /\ res' = Failure("project.put", p.id, p.body, CatchStatus(done.code),
                            CatchMessage(done.code), 2, p.late)
          /\ UNCHANGED <<projects, now>>
     ELSE IF done.rows = {}
     THEN /\ res' = Success("project.put", p.id, p.body, 200, NoData, "", 2, p.late)
          /\ UNCHANGED <<projects, now>>
     ELSE /\ now < MaxClock
          /\ projects' = done.table
          /\ now' = now + 1
          /\ res' = Success("project.put", p.id, p.body, 200, FirstRow(done.rows), "",
                            2, p.late)

\* router.delete('/:id') up to the existence check: lines 264-286
ProjectDeleteCheck(id) ==
  LET late == Deleted(delProject, id)
      rows == SelectById(projects, PgInt(id).val)
  IN
  /\ UNCHANGED <<tables, listing, history, pure>>
  /\ IF BadId(id)
     THEN res' = BadIdResponse("project.delete", id, NoBody, late) /\ UNCHANGED pending
     ELSE IF ~PgInt(id).ok
     THEN /\ res' = Failure("project.delete", id, NoBody, CatchStatus(InvalidText),
                            CatchMessage(InvalidText), 1, late)
          /\ UNCHANGED pending
     ELSE IF rows = {}
     THEN /\ res' = ProjectNotFound("project.delete", id, NoBody, late)
          /\ UNCHANGED pending
     ELSE Suspend("project.delete", id, NoBody, late)

\* router.delete('/:id') from the DELETE on: lines 288-293
ProjectDeleteRun(p) ==
  /\ p.op = "project.delete"
  /\ pending' = pending (-) SetToBag({p})
  /\ projects' = ProjectDeleteFrom(projects, PgInt(p.id).val)
  /\ delProject' = Answered200(delProject, PgInt(p.id).val)
  /\ UNCHANGED <<contactTables, projectsSeq, now, listing, delContact, pure>>
  /\ res' = [Success("project.delete", p.id, NoBody, 200, NoData,
                     "Projet supprime avec succes", 2, p.late)
             EXCEPT !.deletedId = p.id]

(***************************************************************************)
(* Requests.                                                               *)
(***************************************************************************)
Text(n) == <<DigitChar(n)>>

\* Path parameters: the ids the sequences hand out, one more, and two texts
\* that are no integer.
ContactIds == {Text(n) : n \in 1..(MaxContacts + 1)} \cup {<<"a">>, <<"1", "a">>}
ProjectIds == {Text(n) : n \in 1..(MaxProjects + 1)} \cup {<<"a">>, <<"1", "a">>}

Mail == JStr(<<"a", "@", "b", ".", "a">>)

ContactBodies ==
  { [name |-> JStr(<<"a">>), email |-> Mail, message |-> JStr(<<"b">>)],
    [name |-> JStr(<<"B">>), email |-> Mail, message |-> JStr(<<"a">>)],
    [name |-> JUndef, email |-> JUndef, message |-> JUndef],
    [name |-> JStr(<<" ">>), email |-> JStr(<<"a", "@", "b">>), message |-> JStr(<<"b">>)],
    [name |-> JNum(1), email |-> Mail, message |-> JStr(<<"b">>)] }

ListQueries ==
  [search : {JUndef, JStr(<<"b">>)},
   page   : {JUndef} \cup {JStr(Text(n)) : n \in 0..MaxPage},
   limit  : {JUndef} \cup {JStr(Text(n)) : n \in 1..MaxLimit},
   sort   : {<<>>, <<"id", "asc">>, <<"id">>}]

NoFields ==
  [json |-> "object", title |-> JUndef, description |-> JUndef, image |-> JUndef,
   technologies |-> JUndef, featured |-> JUndef, stats |-> JUndef, slug |-> JUndef]

Unparsed == [NoFields EXCEPT !.json = "undefined"]

PostBodies ==
  { [NoFields EXCEPT !.title = JStr(<<"a">>), !.description = JStr(<<"b">>),
                     !.slug = JStr(<<"a">>)],
    [NoFields EXCEPT !.title = JStr(<<" ", "b", " ">>), !.description = JStr(<<"b">>),
                     !.image = JStr(<<"a">>), !.technologies = JArr(1),
                     !.featured = JBool(TRUE), !.stats = JObj(1),
                     !.slug = JStr(<<"b">>)],
    [NoFields EXCEPT !.title = JStr(<<"a">>), !.slug = JStr(<<"A">>)],
    Unparsed }

PutBodies ==
  { [NoFields EXCEPT !.title = JStr(<<"b">>), !.slug = JStr(<<"a">>)],
    [NoFields EXCEPT !.image = JNull, !.featured = JBool(FALSE)],
    [NoFields EXCEPT !.title = JStr(<<" ">>)],
    Unparsed }

(***************************************************************************)
(* The server: any request at any time, handlers interleaved at their      *)
(* awaits.                                                                 *)
(***************************************************************************)
NoArg == [fn |-> "none", data |-> NoBody]
NoRet == [called |-> FALSE, threw |-> FALSE, errors |-> <<>>, values |-> NoBody]

Init ==
  /\ contact = {}
  /\ contactSeq = 1
  /\ projects = {}
  /\ projectsSeq = 1
  /\ now = 0
  /\ pending = EmptyBag
  /\ listing = NoListing
  /\ res = NoRes
  /\ delContact = [n \in 1..MaxContacts |-> 0]
  /\ delProject = [n \in 1..MaxProjects |-> 0]
  /\ arg = NoArg
  /\ ret = NoRet

ContactCrud(bodies) ==
  \/ \E body \in bodies : ContactPost(body)
  \/ \E id \in ContactIds : ContactGet(id)
  \/ \E id \in ContactIds : \E body \in bodies : ContactPut(id, body)
  \/ \E id \in ContactIds : ContactDelete(id)

ContactList ==
  \/ \E q \in ListQueries : \E first \in {"data", "count"} : ContactListStart(q, first)
  \/ ContactListFinish

ProjectCrud(posts, puts) ==
  \/ \E body \in posts : ProjectPost(body)
  \/ \E id \in ProjectIds : ProjectGet(id)
  \/ \E id \in ProjectIds : \E body \in puts : ProjectPutCheck(id, body)
  \/ \E p \in BagToSet(pending) : ProjectPutUpdate(p)
  \/ \E id \in ProjectIds : ProjectDeleteCheck(id)
  \/ \E p \in BagToSet(pending) : ProjectDeleteRun(p)

\* The response leaves; the event loop takes its next event.
Send ==
  /\ res # NoRes
  /\ res' = NoRes
  /\ UNCHANGED <<tables, pending, listing, history, pure>>

Ready == res = NoRes

Next ==
  \/ Send
  \/ Ready /\ ContactCrud(ContactBodies)
  \/ Ready /\ ContactList
  \/ Ready /\ ProjectCrud(PostBodies, PutBodies)

Spec == Init /\ [][Next]_vars

\* The contact router alone.
NextContact ==
  \/ Send
  \/ Ready /\ ContactCrud(ContactBodies)
  \/ Ready /\ ContactList

SpecContact == Init /\ [][NextContact]_vars

\* The project router alone.
NextProject ==
  \/ Send
  \/ Ready /\ ProjectCrud(PostBodies, PutBodies)

SpecProject == Init /\ [][NextProject]_vars

\* Both routers without the list, each with one body that passes validation
\* and one that does not.
LifecycleContacts == {b \in ContactBodies : b.name \in {JStr(<<"a">>), JUndef}}
LifecyclePosts == {b \in PostBodies : b.title = JStr(<<"a">>)}
LifecyclePuts == {b \in PutBodies : b.title # JUndef}

NextLifecycle ==
  \/ Send
  \/ Ready /\ ContactCrud(LifecycleContacts)
  \/ Ready /\ ProjectCrud(LifecyclePosts, LifecyclePuts)

SpecLifecycle == Init /\ [][NextLifecycle]_vars

(***************************************************************************)
(* The pure parts on their own: validateContactData over contact payloads  *)
(* and the validation and parameter list of the project POST over bodies.  *)
(***************************************************************************)
ContactStrings ==
  { <<>>, <<" ">>, <<"a">>, <<" ", "a", " ">>,
    <<"a", "@", "b", ".", "a">>, <<"a", "@", "b", ".", "a", ".", "b">>,
    <<"a", "@", "b">>, <<"@", "b", ".", "a">>, <<"a", "@", "b", ".">>,
    <<"a", "@", "@", "b", ".", "a">>, <<" ", "a", "@", "b", ".", "a">>,
    <<"a", ".", "b", "@", "a">>, <<"a", "@", ".", "a">> }

ContactValues ==
  {JUndef, JNull, JNum(0), JNum(1), JBool(FALSE), JObj(1), JArr(0)}
    \cup {JStr(s) : s \in ContactStrings}

ContactPayloads == [name : ContactValues, email : ContactValues, message : ContactValues]

PostPayloads ==
  [json         : {"object"},
   title        : {JUndef, JStr(<<"a">>), JStr(<<" ", "a", " ">>), JNum(1)},
   description  : {JStr(<<"b">>), JStr(<<" ">>)},
   slug         : {JUndef, JStr(<<"a", "-", "1">>), JStr(<<"A">>), JStr(<<" ", "a">>)},
   image        : {JUndef, JNull, JStr(<<>>), JStr(<<"a">>), JNum(1), JObj(1)},
   technologies : {JUndef, JNull, JArr(0), JArr(1), JStr(<<"a">>), JObj(1)},
   featured     : {JUndef, JBool(TRUE), JBool(FALSE), JStr(<<"a">>), JNum(1)},
   stats        : {JUndef, JNull, JObj(1), JArr(1), JStr(<<"a">>), JNum(0), JNum(1)}]

InitPure ==
  /\ contact = {}
  /\ contactSeq = 1
  /\ projects = {}
  /\ projectsSeq = 1
  /\ now = 0
  /\ pending = EmptyBag
  /\ listing = NoListing
  /\ res = NoRes
  /\ delContact = [n \in 1..MaxContacts |-> 0]
  /\ delProject = [n \in 1..MaxProjects |-> 0]
  /\ \/ arg \in [fn : {"validateContactData"}, data : ContactPayloads]
     \/ arg \in [fn : {"project.post"}, data : PostPayloads]
  /\ ret = NoRet

\* const errors = validateContactData(req.body)
CallValidateContactData ==
  /\ arg.fn = "validateContactData"
  /\ ~ret.called
  /\ ret' = [called |-> TRUE, threw |-> validateContactData(arg.data).threw,
             errors |-> validateContactData(arg.data).errors, values |-> NoBody]
  /\ UNCHANGED <<tables, pending, listing, res, history, arg>>

\* router.post('/') of the projects up to pool.query(query, values)
CallProjectPost ==
  /\ arg.fn = "project.post"
  /\ ~ret.called
  /\ ret' = [called |-> TRUE, threw |-> FALSE, errors |-> PostErrors(arg.data),
             values |-> IF PostErrors(arg.data) = <<>> THEN PostValues(arg.data)
                        ELSE NoBody]
  /\ UNCHANGED <<tables, pending, listing, res, history, arg>>

NextPure == CallValidateContactData \/ CallProjectPost

SpecPure == InitPure /\ [][NextPure]_vars

(***************************************************************************)
(* C7.  validateContactData returns, for every payload, one message for   *)
(* each of name, email and message that is missing, blank after trimming  *)
(* or (email) off the pattern, in that order, and nothing else.           *)
(***************************************************************************)
IsBlank(v) == IsNullish(v) \/ (v.t = "string" /\ trim(v.s) = <<>>)

C7_Expected(data) ==
  (IF IsBlank(data.name) THEN <<"Le nom est requis">> ELSE <<>>)
  \o (IF IsBlank(data.email) THEN <<"Email est requis">>
      ELSE IF data.email.t = "string" /\ ~EmailPattern(data.email.s)
        THEN <<"Email invalide">>
      ELSE <<>>)
  \o (IF IsBlank(data.message) THEN <<"Le message est requis">> ELSE <<>>)

\* C7: every call of validateContactData returns the list of the violations
\* of its payload, in the order name, email, message.
C7_ValidationCollectsAll ==
  (arg.fn = "validateContactData" /\ ret.called) =>
    (~ret.threw /\ ret.errors = C7_Expected(arg.data))

(***************************************************************************)
(* C8.  The parameters of the INSERT for a body that passes validation.   *)
(***************************************************************************)
C8_Expected(body) ==
  [title        |-> JStr(trim(body.title.s)),
   description  |-> JStr(trim(body.description.s)),
   image        |-> IF body.image.t = "string" THEN body.image ELSE JNull,
   technologies |-> IF body.technologies.t = "array" THEN body.technologies ELSE JNull,
   featured     |-> IF body.featured.t = "boolean" THEN body.featured ELSE JBool(FALSE),
   stats        |-> IF body.stats.t \in {"object", "array"} THEN body.stats ELSE JNull,
   slug         |-> JStr(trim(body.slug.s))]

\* C8: for every POST body that passes validation the row handed to storage
\* has title, description and slug trimmed, technologies a list or null,
\* featured a boolean or false, stats an object or null, image a string or
\* null.
C8_PostCoercion ==
  (arg.fn = "project.post" /\ ret.called /\ ret.errors = <<>>) =>
    ret.values = C8_Expected(arg.data)

(***************************************************************************)
(* Steps of the project router, as the properties below name them.         *)
(***************************************************************************)
\* The step answers a POST whose body passed validation: it ran the INSERT.
PostInsertStep == res'.op = "project.post" /\ res'.stmts = 1

\* The step runs the UPDATE of a suspended PUT and answers it.
PutUpdateStep == res'.op = "project.put" /\ pending' # pending

\* The step runs the DELETE of a suspended DELETE and answers it.
DeleteRunStep == res'.op = "project.delete" /\ pending' # pending

\* The row a request's id addresses, in the table before the step.
Target(id) == SelectById(projects, PgInt(id).val)

UniqueSlugs == \A r \in projects : \A o \in projects : r.slug = o.slug => r = o

(***************************************************************************)
(* C1.                                                                     *)
(***************************************************************************)
\* C1: no two stored projects ever share a slug; an INSERT, or an UPDATE of
\* an existing row, whose slug another stored project holds is answered 409
\* and leaves the table as it was.
C1_SlugUnique ==
  [][ /\ UniqueSlugs'
      /\ (PostInsertStep /\ \E o \in projects : o.slug = JStr(trim(res'.body.slug.s)))
            => (res'.status = 409 /\ projects' = projects)
      /\ (/\ PutUpdateStep
          /\ Target(res'.id) # {}
          /\ Truthy(res'.body.slug)
          /\ \E o \in projects \ Target(res'.id) :
                o.slug = JStr(trim(res'.body.slug.s)))
            => (res'.status = 409 /\ projects' = projects) ]_vars

\* A PUT was answered 409 while both rows stay stored.
C1_Witness ==
  res.op = "project.put" /\ res.status = 409 /\ Cardinality(projects) = 2

(***************************************************************************)
(* C2.                                                                     *)
(***************************************************************************)
Fields == {"title", "description", "image", "technologies", "featured", "stats", "slug"}

\* C2: a PUT answered 200 on an existing row gives every field present in
\* the body the supplied value, keeps every omitted field, keeps id and
\* created_at, refreshes updated_at and changes no other row.
C2_PartialUpdate ==
  [][ (PutUpdateStep /\ res'.status = 200 /\ Target(res'.id) # {}) =>
        \E old \in Target(res'.id) : \E new \in projects' :
          /\ projects' \ {new} = projects \ {old}
          /\ new.id = old.id
          /\ new.created_at = old.created_at
          /\ new.updated_at > old.updated_at
          /\ res'.data = new
          /\ \A f \in Fields :
                new[f] = IF res'.body[f] = JUndef THEN old[f] ELSE res'.body[f] ]_vars

(***************************************************************************)
(* C4.                                                                     *)
(***************************************************************************)
IdRoutes == {"project.get", "project.put", "project.delete"}

\* The body of a request by id passes the checks made before the lookup.
BodyAccepted(r) ==
  r.op = "project.put" => (~NotJsonObject(r.body) /\ PutErrors(r.body) = <<>>)

\* C4: GET-by-id, PUT and DELETE answer 400, before any statement, every id
\* that is not an integer, and answer 404 every integer id without a row.
C4_BadIdRejected ==
  [][ (res'.op \in IdRoutes /\ pending' = pending) =>
        /\ ~PgInt(res'.id).ok => (res'.status = 400 /\ res'.stmts = 0)
        /\ (PgInt(res'.id).ok /\ Target(res'.id) = {} /\ BodyAccepted(res'))
              => res'.status = 404 ]_vars

(***************************************************************************)
(* C9.                                                                     *)
(***************************************************************************)
\* C9: a PUT or DELETE whose row was deleted between its existence check
\* and its UPDATE / DELETE is not answered with a 200 success envelope.
C9_RaceNotSuccess ==
  [][ ((PutUpdateStep \/ DeleteRunStep) /\ Target(res'.id) = {}) =>
        ~(res'.status = 200 /\ res'.success) ]_vars

(***************************************************************************)
(* C5.                                                                     *)
(***************************************************************************)
ContactTarget(id) == SelectById(contact, PgInt(id).val)

ContactRowIds == {r.id : r \in contact}

\* C5: a DELETE of a contact id that has a row removes the row and is
\* answered 200 with its id and name, a DELETE of an id without a row is
\* answered 404 and changes nothing; so of the DELETEs of one id exactly
\* one, the first to run, is answered 200.
C5_DeleteOnce ==
  [][ /\ (res'.op = "contact.delete" /\ PgInt(res'.id).ok) =>
           IF ContactTarget(res'.id) # {}
           THEN \E r \in ContactTarget(res'.id) :
                  /\ res'.status = 200
                  /\ res'.data = [id |-> r.id, name |-> r.name]
                  /\ contact' = contact \ {r}
           ELSE res'.status = 404 /\ contact' = contact
      /\ \A n \in DOMAIN delContact :
           /\ delContact'[n] <= 1
           /\ delContact'[n] = 1 <=> (n < contactSeq' /\ n \notin ContactRowIds') ]_vars

\* A second DELETE of contact 1 is answered 404 after the first was
\* answered 200.
C5_Witness ==
  /\ res.op = "contact.delete"
  /\ res.id = <<"1">>
  /\ res.status = 404
  /\ delContact[1] = 1

(***************************************************************************)
(* C6.                                                                     *)
(***************************************************************************)
\* page and limit as the claim reads them: 1 and 10 when omitted.
C6_Page(q)  == IF q.page = JUndef THEN 1 ELSE DecimalVal(q.page.s)
C6_Limit(q) == IF q.limit = JUndef THEN 10 ELSE DecimalVal(q.limit.s)

\* The sorted filtered set.
C6_Sorted(table, q) == orderClause(baseQuery(table, q), q)

\* Its positions (p-1)*l .. (p-1)*l + l - 1, counted from 0.
C6_Slice(table, q) ==
  LET all == C6_Sorted(table, q)
      from == (C6_Page(q) - 1) * C6_Limit(q)
      len == IF Len(all) - from < 0 THEN 0 ELSE Min(C6_Limit(q), Len(all) - from)
  IN  [k \in 1..len |-> all[from + k]]

C6_Ceil(total, l) == CHOOSE k \in 0..total : k * l >= total /\ (k - 1) * l < total

C6_InScope(q) == C6_Page(q) >= 1 /\ C6_Limit(q) >= 1 /\ Len(sort(q)) = 2

\* C6: a list request with page p >= 1 and limit l >= 1 (1 and 10 when
\* omitted) is answered with the rows at positions (p-1)*l .. (p-1)*l+l-1 of
\* the sorted filtered rows its data statement read, and with total the
\* number of filtered rows its count statement read, currentPage p,
\* itemsPerPage l and totalPages ceil(total / l).
C6_Pagination ==
  [][ /\ (listing'.active /\ ~listing.active /\ C6_InScope(listing'.query)) =>
           IF listing'.first = "data"
           THEN listing'.rows = C6_Slice(contact, listing'.query)
           ELSE listing'.count = Cardinality(baseQuery(contact, listing'.query))
      /\ (listing.active /\ ~listing'.active /\ C6_InScope(listing.query)) =>
           LET q == listing.query
               total == IF listing.first = "count" THEN listing.count
                        ELSE Cardinality(baseQuery(contact, q))
           IN  /\ res'.op = "contact.list"
               /\ res'.status = 200
               /\ res'.rows = IF listing.first = "data" THEN listing.rows
                               ELSE C6_Slice(contact, q)
               /\ Len(res'.rows) <= C6_Limit(q)
               /\ res'.pagination =
                     [total |-> total, totalPages |-> C6_Ceil(total, C6_Limit(q)),
                      currentPage |-> C6_Page(q), itemsPerPage |-> C6_Limit(q)] ]_vars

\* Page 2 of two contacts, one per page.
C6_Witness ==
  /\ res.op = "contact.list"
  /\ res.status = 200
  /\ res.pagination = [total |-> 2, totalPages |-> 2, currentPage |-> 2,
                       itemsPerPage |-> 1]
  /\ Len(res.rows) = 1

(***************************************************************************)
(* C3.                                                                     *)
(***************************************************************************)
\* A contact payload with a field that is no string, or blank, or an email
\* off the pattern.
ContactInvalid(body) ==
  \/ \E f \in {"name", "email", "message"} :
       body[f].t # "string" \/ trim(body[f].s) = <<>>
  \/ ~EmailPattern(body.email.s)

\* The request carries an invalid payload or a bad identifier.
C3_InvalidRequest(r) ==
  CASE r.op = "contact.post"   -> ContactInvalid(r.body)
    [] r.op = "contact.put"    -> ContactInvalid(r.body) \/ ~PgInt(r.id).ok
    [] r.op = "project.post"   -> NotJsonObject(r.body) \/ PostErrors(r.body) # <<>>
    [] r.op = "project.put"    -> \/ NotJsonObject(r.body)
                                  \/ PutErrors(r.body) # <<>>
                                  \/ ~PgInt(r.id).ok
    [] r.op = "project.get"    -> ~PgInt(r.id).ok
    [] r.op = "project.delete" -> ~PgInt(r.id).ok
    [] OTHER                   -> FALSE

\* C3: a request with an invalid payload or a bad identifier is answered
\* 400 with its errors, sends no statement and leaves both tables as they
\* were.
C3_ShortCircuit ==
  [][ (res' # NoRes /\ C3_InvalidRequest(res')) =>
        /\ res'.status = 400
        /\ res'.errors # <<>> \/ res'.message # ""
        /\ res'.stmts = 0
        /\ contact' = contact
        /\ projects' = projects ]_vars

(***************************************************************************)
(* C10.                                                                    *)
(***************************************************************************)
ByIdRoutes ==
  {"contact.get", "contact.put", "contact.delete",
   "project.get", "project.put", "project.delete"}

\* An id whose DELETE was answered 200 has no row.
C10_DeletedStaysDeleted ==
  /\ \A n \in DOMAIN delContact : delContact[n] > 0 => SelectById(contact, n) = {}
  /\ \A n \in DOMAIN delProject : delProject[n] > 0 => SelectById(projects, n) = {}

\* No create returns the id of a deleted row.
C10_NoReuse ==
  /\ (res.op = "contact.post" /\ res.status = 201) => delContact[res.data.id] = 0
  /\ (res.op = "project.post" /\ res.status = 201) => delProject[res.data.id] = 0

\* The payload of a PUT passes the handler's validation.
C10_PayloadAccepted(r) ==
  CASE r.op = "contact.put" -> validateContactData(r.body) = [threw |-> FALSE,
                                                              errors |-> <<>>]
    [] r.op = "project.put" -> ~NotJsonObject(r.body) /\ PutErrors(r.body) = <<>>
    [] OTHER                -> TRUE

\* C10 as stated: once a DELETE of an id was answered 200 the id has no row
\* again, every GET-by-id, PUT and DELETE of it that arrives later is
\* answered 404, and no create returns it.
C10_DeletedIsTerminal ==
  /\ C10_DeletedStaysDeleted
  /\ C10_NoReuse
  /\ (res.op \in ByIdRoutes /\ res.late) => res.status = 404

\* C10 as amended: the same, for the PUTs whose payload passes validation.
C10_DeletedIsTerminalForAccepted ==
  /\ C10_DeletedStaysDeleted
  /\ C10_NoReuse
  /\ (res.op \in ByIdRoutes /\ res.late /\ C10_PayloadAccepted(res))
        => res.status = 404

\* A PUT with a valid payload is answered 404 on a project deleted before.
C10_Witness ==
  /\ res.op = "project.put"
  /\ res.late
  /\ C10_PayloadAccepted(res)
  /\ res.status = 404

(***************************************************************************)
(* C11.                                                                    *)
(***************************************************************************)
\* The number of rows page p of size l holds in a table of total rows.
C11_PageSize(total, p, l) ==
  LET left == total - (p - 1) * l
  IN  IF left < 0 THEN 0 ELSE Min(l, left)

\* C11: every 200 response of the contact list returns as many rows as its
\* own pagination block allows: min(limit, max(0, total - (page-1)*limit)),
\* whatever contact creates and deletes ran between its two statements.
C11_ListConsistent ==
  (res.op = "contact.list" /\ res.status = 200) =>
     Len(res.rows) = C11_PageSize(res.pagination.total,
                                  res.pagination.currentPage,
                                  res.pagination.itemsPerPage)

====
